---- MODULE Spec2Model ----
(***************************************************************************)
(* Model of Triangle4Intersector4MoellerTrumbore                           *)
(* (embree/geometry/triangle4_intersector4_moeller.h): the packet          *)
(* ray/triangle kernel with its two operations intersect() and occluded(). *)
(*                                                                         *)
(* A lane value (one float of an ssef) is an exact rational <<n, d>> in    *)
(* lowest terms with d > 0; <<1,0>>, <<-1,0>> and <<0,0>> stand for +inf,  *)
(* -inf and NaN, which rcp(0) and 0*inf produce in lanes the masks then    *)
(* discard.  An ssef is a function Lane -> value, an sseb a function       *)
(* Lane -> BOOLEAN, an sse3f a record [x, y, z] of ssef-lane values taken  *)
(* lane by lane.                                                           *)
(***************************************************************************)
EXTENDS Integers, Sequences, FiniteSets

VARIABLES ray, pre, call, wrote, occlusion

vars == <<ray, pre, call, wrote, occlusion>>

(* ----------------------------- bounds --------------------------------- *)

\* number of lanes of a packet that the model carries
Lanes == 2

\* largest tri.size() of a leaf handed to the kernel
MaxSlots == 2

Lane == 1..Lanes

(* ------------------- lane arithmetic (ssef, sse3f) -------------------- *)

RECURSIVE GCD(_, _)
GCD(a, b) == IF b = 0 THEN a ELSE GCD(b, a % b)

AbsI(n) == IF n < 0 THEN -n ELSE n

SgnI(n) == IF n < 0 THEN -1 ELSE IF n > 0 THEN 1 ELSE 0

\* the value n/d in lowest terms
Q(n, d) ==
  IF d = 1 THEN <<n, 1>>
  ELSE IF d = 0 THEN <<SgnI(n), 0>>
  ELSE LET g == GCD(AbsI(n), AbsI(d))
           s == IF d < 0 THEN -1 ELSE 1
       IN  <<(s * n) \div g, (s * d) \div g>>

I(n) == <<n, 1>>

zero == I(0)

IsNaN(a) == a[1] = 0 /\ a[2] = 0

Finite(a, b) == a[2] # 0 /\ b[2] # 0

\* a + b; inf + (-inf) is NaN
Add(a, b) ==
  IF Finite(a, b) THEN Q(a[1] * b[2] + b[1] * a[2], a[2] * b[2])
  ELSE IF IsNaN(a) \/ IsNaN(b) THEN <<0, 0>>
  ELSE IF a[2] = 0 /\ b[2] = 0 THEN (IF a[1] = b[1] THEN a ELSE <<0, 0>>)
  ELSE IF a[2] = 0 THEN a
  ELSE b

Neg(a) == <<-a[1], a[2]>>

Sub(a, b) == Add(a, Neg(b))

\* a * b; 0 * inf is NaN
Mul(a, b) == Q(a[1] * b[1], a[2] * b[2])

\* a >= b as the comparison of two floats (false when either is NaN)
Ge(a, b) ==
  IF Finite(a, b) THEN a[1] * b[2] >= b[1] * a[2]
  ELSE IF IsNaN(a) \/ IsNaN(b) THEN FALSE
  ELSE IF a[2] = 0 /\ b[2] = 0 THEN a[1] >= b[1]
  ELSE a[1] * b[2] >= b[1] * a[2]

\* a != b as the comparison of two floats (true when either is NaN)
Ne(a, b) == a # b \/ IsNaN(a)

abs(a) == <<AbsI(a[1]), a[2]>>

\* signmsk(a): the sign bit of a, TRUE when it is set
signmsk(a) == a[1] < 0

\* a ^ sgn: flips the sign of a when the sign bit sgn is set
Xor(a, sgn) == IF sgn THEN Neg(a) ELSE a

\* rcp(a): the reciprocal 1/a
rcp(a) == Q(a[2], a[1])

Vec(x, y, z) == [x |-> x, y |-> y, z |-> z]

VSub(a, b) == Vec(Sub(a.x, b.x), Sub(a.y, b.y), Sub(a.z, b.z))

dot(a, b) == Add(Add(Mul(a.x, b.x), Mul(a.y, b.y)), Mul(a.z, b.z))

cross(a, b) ==
  Vec(Sub(Mul(a.y, b.z), Mul(a.z, b.y)),
      Sub(Mul(a.z, b.x), Mul(a.x, b.z)),
      Sub(Mul(a.x, b.y), Mul(a.y, b.x)))

\* the packet-wide value (ssef, sseb) that holds f[l] in lane l, each lane
\* evaluated once
Lanewise(f) ==
  LET upTo[n \in 0..Lanes] == IF n = 0 THEN <<>> ELSE Append(upTo[n - 1], f[n])
  IN  upTo[Lanes]

\* select(m, t, f): lane by lane, t where m is set and f elsewhere
select(m, t, f) == Lanewise([l \in Lane |-> IF m[l] THEN t[l] ELSE f[l]])

none(m) == \A l \in Lane : ~m[l]

all(m) == \A l \in Lane : m[l]

\* a scalar broadcast to every lane
Splat(a) == Lanewise([l \in Lane |-> a])

NoLane == Splat(FALSE)

(* ------------------------- the kernel's steps ------------------------- *)

\* DetTest assigning the mask instead of and-ing it: valid = det != zero
DetTestAssign(valid, det) == Lanewise([l \in Lane |-> Ne(det[l], zero)])

\* DetTest without the comparison: the mask passes as it came
DetTestDropped(valid, det) == valid

\* valid &= det != ssef(zero)
DetTest(valid, det) == Lanewise([l \in Lane |-> valid[l] /\ Ne(det[l], zero)])

\* valid &= X >= 0.0f, for X one of U, V, W
EdgeTest(valid, X) == Lanewise([l \in Lane |-> valid[l] /\ Ge(X[l], zero)])

\* DepthTest without its upper bound: valid &= T >= absDet*ray.tnear
DepthTestNoFar(valid, T, absDet, r) ==
  Lanewise([l \in Lane |-> valid[l] /\ Ge(T[l], Mul(absDet[l], r.tnear[l]))])

\* DepthTest without its lower bound: valid &= absDet*ray.tfar >= T
DepthTestNoNear(valid, T, absDet, r) ==
  Lanewise([l \in Lane |-> valid[l] /\ Ge(Mul(absDet[l], r.tfar[l]), T[l])])

\* DepthTest with a strict upper bound: absDet*ray.tfar > T
DepthTestStrict(valid, T, absDet, r) ==
  Lanewise([l \in Lane |-> /\ valid[l]
                           /\ Ge(T[l], Mul(absDet[l], r.tnear[l]))
                           /\ Ge(Mul(absDet[l], r.tfar[l]), T[l])
                           /\ Ne(Mul(absDet[l], r.tfar[l]), T[l])])

\* valid &= (T >= absDet*ray.tnear) & (absDet*ray.tfar >= T)
DepthTest(valid, T, absDet, r) ==
  Lanewise([l \in Lane |-> /\ valid[l]
                           /\ Ge(T[l], Mul(absDet[l], r.tnear[l]))
                           /\ Ge(Mul(absDet[l], r.tfar[l]), T[l])])

\* Skip leaving the slot as soon as one lane failed: if (!all(valid)) continue;
SkipUnlessAll(valid) == ~all(valid)

\* if (none(valid)) continue;
Skip(valid) == none(valid)

\* Update with the two identifiers exchanged
UpdateSwappedIds(valid, r, U, V, T, absDet, t) ==
  LET rcpAbsDet == Lanewise([l \in Lane |-> rcp(absDet[l])])
  IN  [r EXCEPT
        !.u    = select(valid, Lanewise([l \in Lane |-> Mul(U[l], rcpAbsDet[l])]), r.u),
        !.v    = select(valid, Lanewise([l \in Lane |-> Mul(V[l], rcpAbsDet[l])]), r.v),
        !.tfar = select(valid, Lanewise([l \in Lane |-> Mul(T[l], rcpAbsDet[l])]), r.tfar),
        !.id0  = select(valid, Splat(t.id1), r.id0),
        !.id1  = select(valid, Splat(t.id0), r.id1),
        !.Ng   = select(valid, Splat(t.Ng), r.Ng)]

\* Update that leaves ray.tfar as it was
UpdateKeepTfar(valid, r, U, V, T, absDet, t) ==
  LET rcpAbsDet == Lanewise([l \in Lane |-> rcp(absDet[l])])
  IN  [r EXCEPT
        !.u    = select(valid, Lanewise([l \in Lane |-> Mul(U[l], rcpAbsDet[l])]), r.u),
        !.v    = select(valid, Lanewise([l \in Lane |-> Mul(V[l], rcpAbsDet[l])]), r.v),
        !.id0  = select(valid, Splat(t.id0), r.id0),
        !.id1  = select(valid, Splat(t.id1), r.id1),
        !.Ng   = select(valid, Splat(t.Ng), r.Ng)]

\* update hit information for all rays that hit the triangle
Update(valid, r, U, V, T, absDet, t) ==
  LET rcpAbsDet == Lanewise([l \in Lane |-> rcp(absDet[l])])
  IN  [r EXCEPT
        !.u    = select(valid, Lanewise([l \in Lane |-> Mul(U[l], rcpAbsDet[l])]), r.u),
        !.v    = select(valid, Lanewise([l \in Lane |-> Mul(V[l], rcpAbsDet[l])]), r.v),
        !.tfar = select(valid, Lanewise([l \in Lane |-> Mul(T[l], rcpAbsDet[l])]), r.tfar),
        !.id0  = select(valid, Splat(t.id0), r.id0),
        !.id1  = select(valid, Splat(t.id1), r.id1),
        !.Ng   = select(valid, Splat(t.Ng), r.Ng)]

\* The quantities one slot t computes for the packet r: C, R, det, absDet,
\* sgnDet, U, V, W, T and the mask after each test, lane by lane.
SlotTerms(valid_i, r, t) ==
  LET C      == Lanewise([l \in Lane |-> VSub(t.v0, r.org[l])])
      R      == Lanewise([l \in Lane |-> cross(r.dir[l], C[l])])
      det    == Lanewise([l \in Lane |-> dot(t.Ng, r.dir[l])])
      absDet == Lanewise([l \in Lane |-> abs(det[l])])
      sgnDet == Lanewise([l \in Lane |-> signmsk(det[l])])
      U      == Lanewise([l \in Lane |-> Xor(dot(R[l], t.e2), sgnDet[l])])
      V      == Lanewise([l \in Lane |-> Xor(dot(R[l], t.e1), sgnDet[l])])
      W      == Lanewise([l \in Lane |-> Sub(Sub(absDet[l], U[l]), V[l])])
      T      == Lanewise([l \in Lane |-> Xor(dot(t.Ng, C[l]), sgnDet[l])])
      valid1 == DetTest(valid_i, det)
      valid2 == EdgeTest(valid1, U)
      valid3 == EdgeTest(valid2, V)
      valid4 == EdgeTest(valid3, W)
      valid5 == DepthTest(valid4, T, absDet, r)
  IN  [det |-> det, absDet |-> absDet, U |-> U, V |-> V, W |-> W, T |-> T,
       valid1 |-> valid1, valid2 |-> valid2, valid3 |-> valid3,
       valid4 |-> valid4, valid5 |-> valid5]

\* The end of one iteration of intersect()'s loop, s being what the slot
\* computed: the packet after it and the lanes it wrote (no lane when an
\* early exit skipped the slot).
SlotUpdate(s, r, t) ==
  IF Skip(s.valid1) THEN [ray |-> r, valid |-> NoLane]
  ELSE IF Skip(s.valid2) THEN [ray |-> r, valid |-> NoLane]
  ELSE IF Skip(s.valid3) THEN [ray |-> r, valid |-> NoLane]
  ELSE IF Skip(s.valid4) THEN [ray |-> r, valid |-> NoLane]
  ELSE IF Skip(s.valid5) THEN [ray |-> r, valid |-> NoLane]
  ELSE [ray   |-> Update(s.valid5, r, s.U, s.V, s.T, s.absDet, t),
        valid |-> s.valid5]

\* One iteration of intersect()'s loop for slot t.
IntersectSlot(valid_i, r, t) == SlotUpdate(SlotTerms(valid_i, r, t), r, t)

RECURSIVE IntersectFrom(_, _, _, _, _)

\* intersect()'s loop goes on after slot i, whose outcome is s
IntersectNext(valid_i, s, tri, i, w) ==
  IntersectFrom(valid_i, s.ray, tri, i + 1, Append(w, s.valid))

\* intersect()'s loop from slot i on, w being the lanes the slots before
\* wrote
IntersectFrom(valid_i, r, tri, i, w) ==
  IF i > Len(tri) THEN [ray |-> r, wrote |-> w]
  ELSE IntersectNext(valid_i, IntersectSlot(valid_i, r, tri[i]), tri, i, w)

\* intersect(valid_i, ray, tri): the packet after the call, and for every
\* slot the lanes whose hit fields the slot wrote.
intersect(valid_i, r, tri) == IntersectFrom(valid_i, r, tri, 1, <<>>)

\* The lanes that survive a slot of occluded(), s being what the slot
\* computed (no lane when an early exit skipped the slot).
SlotSurvivors(s) ==
  IF Skip(s.valid1) THEN NoLane
  ELSE IF Skip(s.valid2) THEN NoLane
  ELSE IF Skip(s.valid3) THEN NoLane
  ELSE IF Skip(s.valid4) THEN NoLane
  ELSE IF Skip(s.valid5) THEN NoLane
  ELSE s.valid5

\* OccludedSlot without the depth test: the lanes that pass the edge tests
OccludedSlotNoDepth(valid_i, r, t) == SlotTerms(valid_i, r, t).valid4

\* One iteration of occluded()'s loop up to its depth test, for slot t.
OccludedSlot(valid_i, r, t) == SlotSurvivors(SlotTerms(valid_i, r, t))

\* OccInit without the negation: occlusion = valid_i
OccInitActive(valid_i) == valid_i

\* sseb occlusion = !valid_i
OccInit(valid_i) == Lanewise([l \in Lane |-> ~valid_i[l]])

\* occlusion |= valid
OccUpdate(occ, valid) == Lanewise([l \in Lane |-> occ[l] \/ valid[l]])

\* if (all(occlusion)) return occlusion;
OccDone(occ) == all(occ)

RECURSIVE OccludedFrom(_, _, _, _, _, _)

\* The end of one iteration of occluded()'s loop, valid being the lanes
\* that survived slot i: the slot is skipped, or its lanes are or'ed into
\* occ and the loop returns or goes on.
OccludedNext(valid_i, r, tri, i, occ, w, valid) ==
  IF Skip(valid)
    THEN OccludedFrom(valid_i, r, tri, i + 1, occ, Append(w, NoLane))
  ELSE IF OccDone(OccUpdate(occ, valid))
    THEN [occlusion |-> OccUpdate(occ, valid), wrote |-> Append(w, valid)]
  ELSE OccludedFrom(valid_i, r, tri, i + 1, OccUpdate(occ, valid),
                    Append(w, valid))

\* occluded()'s loop from slot i on, occ being the mask so far and w the
\* lanes the slots before or'ed into it
OccludedFrom(valid_i, r, tri, i, occ, w) ==
  IF i > Len(tri) THEN [occlusion |-> occ, wrote |-> w]
  ELSE OccludedNext(valid_i, r, tri, i, occ, w,
                    OccludedSlot(valid_i, r, tri[i]))

\* occluded(valid_i, ray, tri): the returned mask, and for every slot the
\* loop reached the lanes the slot or'ed into it.
occluded(valid_i, r, tri) ==
  OccludedFrom(valid_i, r, tri, 1, OccInit(valid_i), <<>>)

(* --------------------------- the inputs ------------------------------- *)

V3(x, y, z) == Vec(I(x), I(y), I(z))

\* A slot of a Triangle4 as the kernel reads it: v0, e1, e2, Ng, id0, id1.
Slot(v0, e1, e2, Ng, id0, id1) ==
  [v0 |-> v0, e1 |-> e1, e2 |-> e2, Ng |-> Ng, id0 |-> id0, id1 |-> id1]

\* The slot of the triangle (v0, v1, v2) with the edges the data model
\* describes: e1 = v1 - v0, e2 = v2 - v0, Ng = cross(e1, e2).
PackEdges(v0, v1, v2, id0, id1) ==
  LET e1 == VSub(v1, v0)
      e2 == VSub(v2, v0)
  IN  Slot(v0, e1, e2, cross(e1, e2), id0, id1)

\* The slot of the triangle (v0, v1, v2) with the first edge reversed:
\* e1 = v0 - v1, e2 = v2 - v0, Ng = cross(e1, e2).
PackReversed(v0, v1, v2, id0, id1) ==
  LET e1 == VSub(v0, v1)
      e2 == VSub(v2, v0)
  IN  Slot(v0, e1, e2, cross(e1, e2), id0, id1)

\* the triangle (0,0,0), (1,0,0), (0,1,0), first edge reversed
TriUnit == PackReversed(V3(0, 0, 0), V3(1, 0, 0), V3(0, 1, 0), 1, 11)

\* the same triangle packed as the data model describes
TriUnitEdges == PackEdges(V3(0, 0, 0), V3(1, 0, 0), V3(0, 1, 0), 2, 12)

\* a larger triangle in the same plane z = 0
TriBig == PackReversed(V3(0, 0, 0), V3(2, 0, 0), V3(0, 2, 0), 3, 13)

\* the larger triangle moved to the plane z = -1
TriFar == PackReversed(V3(0, 0, -1), V3(2, 0, -1), V3(0, 2, -1), 4, 14)

\* a zero-area triangle: v1 = v2, so e1 = -e2 and Ng = 0
TriZero == PackReversed(V3(0, 0, 0), V3(1, 1, 0), V3(1, 1, 0), 5, 15)

Triangles == <<TriUnit, TriBig, TriFar, TriZero, TriUnitEdges>>

\* every leaf of at most MaxSlots distinct triangles of the list above, in
\* every order
Leaves ==
  UNION {{[i \in 1..n |-> Triangles[f[i]]] :
            f \in {g \in [1..n -> 1..Len(Triangles)] :
                     \A i, j \in 1..n : i # j => g[i] # g[j]}} :
         n \in 0..MaxSlots}

Masks == [Lane -> BOOLEAN]

\* One ray of a packet: origin, direction and the interval [tnear, tfar].
Ray(org, dir, tnear, tfar) ==
  [org |-> org, dir |-> dir, tnear |-> tnear, tfar |-> tfar]

Rays ==
  << \* down the z axis onto the point (1/4, 1/4) of the plane z = 0
     Ray(Vec(Q(1, 4), Q(1, 4), I(1)), V3(0, 0, -1), I(0), I(3)),
     \* inside the plane z = 0, parallel to it
     Ray(Vec(I(-1), Q(1, 4), I(0)), V3(1, 0, 0), I(0), I(3)),
     \* up the z axis from behind onto the point (3/2, 1/4), the interval
     \* starting past the plane z = -1 and ending at the plane z = 0
     Ray(Vec(Q(3, 2), Q(1, 4), I(-3)), V3(0, 0, 1), Q(5, 2), I(3)) >>

\* The packet whose lane l carries ray k + l - 1 of Rays (cyclically), with
\* no hit recorded.
Packet(k) ==
  LET rayOf(l) == Rays[((k + l - 2) % Len(Rays)) + 1]
  IN  [org   |-> Lanewise([l \in Lane |-> rayOf(l).org]),
       dir   |-> Lanewise([l \in Lane |-> rayOf(l).dir]),
       tnear |-> Lanewise([l \in Lane |-> rayOf(l).tnear]),
       tfar  |-> Lanewise([l \in Lane |-> rayOf(l).tfar]),
       u     |-> Splat(zero),
       v     |-> Splat(zero),
       id0   |-> Splat(-1),
       id1   |-> Splat(-1),
       Ng    |-> Splat(V3(0, 0, 0))]

NoCall == [op |-> "none", valid_i |-> NoLane, tri |-> <<>>]

(* ------------------------- the state machine -------------------------- *)

\* ray: the caller's Ray4; pre: the packet before the last call; call: the
\* last call's operation and arguments; wrote: per slot of that call the
\* lanes the slot updated; occlusion: the mask occluded() last returned.
Init ==
  /\ ray \in {Packet(k) : k \in 1..Len(Rays)}
  /\ pre = ray
  /\ call = NoCall
  /\ wrote = <<>>
  /\ occlusion = NoLane

\* The traversal calls intersect() on a leaf, with some active mask.
Intersect ==
  /\ call.op = "none"
  /\ \E valid_i \in Masks, tri \in Leaves :
       LET res == intersect(valid_i, ray, tri)
       IN  /\ ray' = res.ray
           /\ pre' = ray
           /\ call' = [op |-> "intersect", valid_i |-> valid_i, tri |-> tri]
           /\ wrote' = res.wrote
           /\ occlusion' = NoLane

\* The traversal calls occluded() on a leaf, with some active mask.
Occluded ==
  /\ call.op = "none"
  /\ \E valid_i \in Masks, tri \in Leaves :
       LET res == occluded(valid_i, ray, tri)
       IN  /\ ray' = ray
           /\ pre' = ray
           /\ call' = [op |-> "occluded", valid_i |-> valid_i, tri |-> tri]
           /\ wrote' = res.wrote
           /\ occlusion' = res.occlusion

\* Control returns to the traversal, which keeps the packet and moves on.
Return ==
  /\ call.op # "none"
  /\ pre' = ray
  /\ call' = NoCall
  /\ wrote' = <<>>
  /\ occlusion' = NoLane
  /\ UNCHANGED ray

Next == Intersect \/ Occluded \/ Return

Spec == Init /\ [][Next]_vars

(* ------------------- vocabulary of the properties --------------------- *)

AllLanes == Splat(TRUE)

Slots == 1..Len(call.tri)

\* lane l is in the last call's active mask
Active(l) == call.valid_i[l]

Lt(a, b) == Ge(b, a) /\ a # b

\* For every slot of the last call's leaf, what the slot computes for the
\* packet the call got, with every lane taken as active.
RECURSIVE TermsFrom(_)
TermsFrom(i) ==
  IF i > Len(call.tri) THEN <<>>
  ELSE <<SlotTerms(AllLanes, pre, call.tri[i])>> \o TermsFrom(i + 1)

\* In the operators below tm is TermsFrom(1).

\* lane l passes slot i's geometric test: det != 0, U >= 0, V >= 0, W >= 0
GeoPass(tm, i, l) ==
  /\ Ne(tm[i].det[l], zero)
  /\ Ge(tm[i].U[l], zero)
  /\ Ge(tm[i].V[l], zero)
  /\ Ge(tm[i].W[l], zero)

\* the quotient X/absDet of slot i on lane l, for X one of U, V, T
Over(tm, X, i, l) ==
  Q(X[l][1] * tm[i].absDet[l][2], X[l][2] * tm[i].absDet[l][1])

\* the hit distance T/absDet of slot i on lane l
Dist(tm, i, l) == Over(tm, tm[i].T, i, l)

\* lane l passes slot i's full test against the interval the call got:
\* the geometric test and absDet*tnear <= T <= absDet*tfar
FullPass(tm, i, l) ==
  /\ GeoPass(tm, i, l)
  /\ Ge(tm[i].T[l], Mul(tm[i].absDet[l], pre.tnear[l]))
  /\ Ge(Mul(tm[i].absDet[l], pre.tfar[l]), tm[i].T[l])

\* the hit fields of lane l of a packet
HitFields(r, l) == <<r.u[l], r.v[l], r.tfar[l], r.id0[l], r.id1[l], r.Ng[l]>>

\* some slot of the last call updated lane l
Written(l) == \E i \in 1..Len(wrote) : wrote[i][l]

(* ------------------------------ C1 ------------------------------------ *)

\* C1: after intersect(), every lane that is not in the active mask has the
\* u, v, tfar, id0, id1 and Ng it had before the call, whatever the leaf.
InactiveLanesUntouched ==
  call.op = "intersect" =>
    \A l \in Lane : ~Active(l) => HitFields(ray, l) = HitFields(pre, l)

\* an inactive lane that a slot of the leaf would have hit, in a call that
\* updated another lane
InactiveLaneWitness ==
  /\ call.op = "intersect"
  /\ LET tm == TermsFrom(1)
     IN  \E l, m \in Lane :
           /\ ~Active(l)
           /\ \E i \in Slots : FullPass(tm, i, l)
           /\ Written(m)

(* ------------------------------ C2 ------------------------------------ *)

\* the call recorded in res put a hit into lane l, at a distance inside the
\* interval [tnear, tfar] the call got
RecordsHit(res, l) ==
  /\ \E i \in 1..Len(res.wrote) : res.wrote[i][l]
  /\ Ge(res.ray.tfar[l], pre.tnear[l])
  /\ Ge(pre.tfar[l], res.ray.tfar[l])

\* C2 as stated: in every lane of the packet, occluded() returns true
\* exactly when intersect() with the same mask, leaf and packet records a hit.
OccludedIffIntersectHit ==
  call.op = "occluded" =>
    LET res == intersect(call.valid_i, pre, call.tri)
    IN  \A l \in Lane : occlusion[l] <=> RecordsHit(res, l)

\* C2 amended: in every lane of the active mask, occluded() returns true
\* exactly when intersect() with the same mask, leaf and packet records a hit.
OccludedIffIntersectHitActive ==
  call.op = "occluded" =>
    LET res == intersect(call.valid_i, pre, call.tri)
    IN  \A l \in Lane : Active(l) => (occlusion[l] <=> RecordsHit(res, l))

\* two active lanes, one occluded and one not
OccludedIffWitness ==
  /\ call.op = "occluded"
  /\ LET res == intersect(call.valid_i, pre, call.tri)
     IN  \E l, m \in Lane :
           /\ Active(l) /\ occlusion[l] /\ RecordsHit(res, l)
           /\ Active(m) /\ ~occlusion[m]

(* ------------------------------ C3 ------------------------------------ *)

\* the distances of the slots that lane l passes inside the interval the
\* call got
HitDists(tm, l) == {Dist(tm, i, l) : i \in {j \in Slots : FullPass(tm, j, l)}}

Least(D) == CHOOSE d \in D : \A e \in D : Ge(e, d)

\* C3: after intersect(), an active lane that some slot passes inside
\* [tnear, tfar] has as tfar the least of those slots' hit distances,
\* whatever the order of the slots; an active lane that no slot passes keeps
\* its tfar.
NearestHitAcrossLeaf ==
  call.op = "intersect" =>
    LET tm == TermsFrom(1)
    IN  \A l \in Lane :
          Active(l) =>
            LET D == HitDists(tm, l)
            IN  IF D = {} THEN ray.tfar[l] = pre.tfar[l]
                ELSE ray.tfar[l] = Least(D)

\* a lane hit by two slots, the farther one stored first
NearestHitWitness ==
  /\ call.op = "intersect"
  /\ LET tm == TermsFrom(1)
     IN  \E l \in Lane, i, j \in Slots :
           /\ Active(l) /\ i < j
           /\ FullPass(tm, i, l) /\ FullPass(tm, j, l)
           /\ Lt(Dist(tm, j, l), Dist(tm, i, l))
           /\ ray.tfar[l] = Dist(tm, j, l)

(* ------------------------------ C4 ------------------------------------ *)

\* lane l carries the ray from (1/4, 1/4, 1) along (0, 0, -1) with 1 inside
\* its interval
GroundRay(l) ==
  /\ pre.org[l] = Vec(Q(1, 4), Q(1, 4), I(1))
  /\ pre.dir[l] = V3(0, 0, -1)
  /\ Ge(I(1), pre.tnear[l])
  /\ Ge(pre.tfar[l], I(1))

\* intersect() on the one-slot leaf t put t's hit at distance 1 with
\* u = v = 1/4 into every active lane that carries the ray above
GroundTruth(t) ==
  (call.op = "intersect" /\ call.tri = <<t>>) =>
    \A l \in Lane :
      (Active(l) /\ GroundRay(l)) =>
        /\ ray.tfar[l] = I(1)
        /\ ray.u[l] = Q(1, 4)
        /\ ray.v[l] = Q(1, 4)
        /\ ray.id0[l] = t.id0
        /\ ray.id1[l] = t.id1

\* C4 as stated: the triangle (0,0,0), (1,0,0), (0,1,0) packed with
\* e1 = v1 - v0, e2 = v2 - v0, Ng = cross(e1, e2) gets tfar = 1, u = v = 1/4
\* and its identifiers recorded for the ray from (1/4, 1/4, 1) along (0, 0, -1).
GroundTruthEdges == GroundTruth(TriUnitEdges)

\* C4 amended: the same triangle packed with e1 = v0 - v1, e2 = v2 - v0,
\* Ng = cross(e1, e2) gets tfar = 1, u = v = 1/4 and its identifiers recorded
\* for the ray from (1/4, 1/4, 1) along (0, 0, -1).
GroundTruthReversed == GroundTruth(TriUnit)

\* the ray, with no hit recorded before, hits the triangle at distance 1
GroundTruthWitness ==
  /\ call.op = "intersect"
  /\ call.tri = <<TriUnit>>
  /\ \E l \in Lane :
       /\ Active(l) /\ GroundRay(l)
       /\ pre.id0[l] = -1
       /\ ray.tfar[l] = I(1)
       /\ ray.id0[l] = TriUnit.id0

(* ------------------------------ C5 ------------------------------------ *)

\* C5: a slot whose Ng is orthogonal to a lane's direction (det = 0) never
\* updates that lane in intersect() and never sets its bit in occluded(); a
\* leaf of zero-area triangles (Ng = 0) leaves the packet as it was and
\* makes occluded() return the complement of the active mask.
ZeroDetExcluded ==
  call.op # "none" =>
    /\ \A i \in 1..Len(wrote), l \in Lane :
         ~Ne(dot(call.tri[i].Ng, pre.dir[l]), zero) => ~wrote[i][l]
    /\ (\A i \in Slots : call.tri[i].Ng = V3(0, 0, 0)) =>
         /\ ray = pre
         /\ call.op = "occluded" => occlusion = Lanewise([l \in Lane |-> ~Active(l)])

\* an active lane parallel to the plane of a triangle that another lane
\* hits, in a leaf that also holds a zero-area triangle
ZeroDetWitness ==
  /\ call.op # "none"
  /\ \E i \in 1..Len(wrote), l, m \in Lane :
       /\ Active(l)
       /\ ~Ne(dot(call.tri[i].Ng, pre.dir[l]), zero)
       /\ call.tri[i].Ng # V3(0, 0, 0)
       /\ wrote[i][m]
  /\ \E i \in Slots : call.tri[i].Ng = V3(0, 0, 0)

(* ------------------------------ C6 ------------------------------------ *)

\* intersect() with every "if (none(valid)) continue" removed
RECURSIVE IntersectNoExit(_, _, _, _)
IntersectNoExit(valid_i, r, tri, i) ==
  IF i > Len(tri) THEN r
  ELSE LET s == SlotTerms(valid_i, r, tri[i])
       IN  IntersectNoExit(valid_i,
                           Update(s.valid5, r, s.U, s.V, s.T, s.absDet, tri[i]),
                           tri, i + 1)

\* occluded() with every "continue" and the early return removed
RECURSIVE OccludedNoExit(_, _, _, _, _)
OccludedNoExit(valid_i, r, tri, i, occ) ==
  IF i > Len(tri) THEN occ
  ELSE LET valid == SlotTerms(valid_i, r, tri[i]).valid5
       IN  OccludedNoExit(valid_i, r, tri, i + 1,
                          Lanewise([l \in Lane |-> occ[l] \/ valid[l]]))

\* C6: the early exits change no result: intersect() leaves the packet, and
\* occluded() returns the mask, that the same loops without early exits give.
EarlyExitsNeutral ==
  /\ call.op = "intersect" =>
       ray = IntersectNoExit(call.valid_i, pre, call.tri, 1)
  /\ call.op = "occluded" =>
       /\ ray = pre
       /\ occlusion = OccludedNoExit(call.valid_i, pre, call.tri, 1,
                                     Lanewise([l \in Lane |-> ~Active(l)]))

\* occluded() returned before the last slot, which an active lane passes
EarlyExitWitness ==
  /\ call.op = "occluded"
  /\ Len(wrote) < Len(call.tri)
  /\ LET tm == TermsFrom(1)
     IN  \E l \in Lane, i \in Slots :
           i > Len(wrote) /\ Active(l) /\ FullPass(tm, i, l)

(* ------------------------------ C7 ------------------------------------ *)

\* slot j comes after slot i, which updated lane l, and passes the
\* geometric test for l at exactly slot i's distance
Tie(tm, i, j, l) ==
  /\ i < j
  /\ wrote[i][l]
  /\ GeoPass(tm, j, l)
  /\ Dist(tm, j, l) = Dist(tm, i, l)

\* C7 as stated: a later slot that hits a lane at exactly the distance an
\* earlier slot recorded does not overwrite the lane's hit.
TieKeepsEarlier ==
  call.op = "intersect" =>
    LET tm == TermsFrom(1)
    IN  \A l \in Lane, i, j \in Slots : Tie(tm, i, j, l) => ~wrote[j][l]

\* C7 amended: a later slot that hits a lane at exactly the distance an
\* earlier slot recorded, with no nearer hit recorded in between, overwrites
\* the lane's hit: tfar stays, and u, v, id0, id1, Ng are the later slot's
\* unless a slot after it overwrites them in turn.
TieOverwrites ==
  call.op = "intersect" =>
    LET tm == TermsFrom(1)
    IN  \A l \in Lane, i, j \in Slots :
          (/\ Tie(tm, i, j, l)
           /\ \A k \in (i + 1)..(j - 1) :
                wrote[k][l] => Dist(tm, k, l) = Dist(tm, i, l))
          => /\ wrote[j][l]
             /\ (\A k \in (j + 1)..Len(wrote) : ~wrote[k][l]) =>
                  /\ ray.tfar[l] = Dist(tm, i, l)
                  /\ ray.u[l] = Over(tm, tm[j].U, j, l)
                  /\ ray.v[l] = Over(tm, tm[j].V, j, l)
                  /\ ray.id0[l] = call.tri[j].id0
                  /\ ray.id1[l] = call.tri[j].id1
                  /\ ray.Ng[l] = call.tri[j].Ng

\* two triangles of one plane hit at the same distance, with different
\* barycentrics, and the later one's hit is what the lane holds
TieWitness ==
  /\ call.op = "intersect"
  /\ LET tm == TermsFrom(1)
     IN  \E l \in Lane, i, j \in Slots :
           /\ Tie(tm, i, j, l)
           /\ call.tri[i].id0 # call.tri[j].id0
           /\ ray.id0[l] = call.tri[j].id0
           /\ ray.u[l] # Over(tm, tm[i].U, i, l)

(* ------------------------------ C8 ------------------------------------ *)

\* the leaves that hold the slots of leaf tri in another order
Permutations(tri) ==
  {[k \in 1..Len(tri) |-> tri[f[k]]] :
     f \in {g \in [1..Len(tri) -> 1..Len(tri)] :
              \A a, b \in 1..Len(tri) : a # b => g[a] # g[b]}}

\* no two slots hit the same active lane at the same distance
NoTies(tm) ==
  \A l \in Lane, i, j \in Slots :
    (Active(l) /\ i < j /\ FullPass(tm, i, l) /\ FullPass(tm, j, l))
      => Dist(tm, i, l) # Dist(tm, j, l)

\* C8: when no two slots hit the same lane at the same distance, intersect()
\* on any reordering of the leaf leaves the same packet.
OrderIndependent ==
  (call.op = "intersect" /\ NoTies(TermsFrom(1))) =>
    \A p \in Permutations(call.tri) :
      intersect(call.valid_i, pre, p).ray = ray

\* a lane hit by two slots at different distances, the nearer stored first
OrderWitness ==
  /\ call.op = "intersect"
  /\ LET tm == TermsFrom(1)
     IN  /\ NoTies(tm)
         /\ \E l \in Lane, i, j \in Slots :
              /\ Active(l) /\ i < j
              /\ FullPass(tm, i, l) /\ FullPass(tm, j, l)
              /\ Lt(Dist(tm, i, l), Dist(tm, j, l))
              /\ ~wrote[j][l]

(* ------------------------------ C9 ------------------------------------ *)

\* C9: occluded() returns true for a lane exactly when the lane is not in
\* the active mask or some slot of the leaf passes the full test for it.
OccludedMask ==
  call.op = "occluded" =>
    LET tm == TermsFrom(1)
    IN  \A l \in Lane :
          occlusion[l] <=> (~Active(l) \/ \E i \in Slots : FullPass(tm, i, l))

\* an inactive lane reported occluded beside an active lane that passes a
\* slot's geometric test and is hit by no slot of the leaf
OccludedMaskWitness ==
  /\ call.op = "occluded"
  /\ LET tm == TermsFrom(1)
     IN  \E l, m \in Lane :
           /\ ~Active(l) /\ occlusion[l]
           /\ Active(m) /\ ~occlusion[m]
           /\ \E i \in Slots : GeoPass(tm, i, m)

(* ------------------------------ C10 ----------------------------------- *)

\* C10: whatever calls came before, a call of intersect() raises no lane's
\* tfar, leaves tnear as it was, and keeps tnear <= tfar in every lane that
\* had it before the call.
IntervalPreserved ==
  call.op = "intersect" =>
    \A l \in Lane :
      /\ Ge(pre.tfar[l], ray.tfar[l])
      /\ ray.tnear[l] = pre.tnear[l]
      /\ Ge(pre.tfar[l], pre.tnear[l]) => Ge(ray.tfar[l], ray.tnear[l])

\* a lane whose tfar an earlier call had already lowered is lowered again
IntervalWitness ==
  /\ call.op = "intersect"
  /\ \E l \in Lane :
       /\ pre.id0[l] # -1
       /\ Lt(ray.tfar[l], pre.tfar[l])
       /\ Ge(ray.tfar[l], ray.tnear[l])

====
